---- MODULE Spec2Model ----
(***************************************************************************)
(* A model of src/src/main.rs: the image cache (ImageCache), the asset     *)
(* resolution pipeline of try_main, the material rewriter, and the frame   *)
(* loop with its error latch.                                              *)
(***************************************************************************)
EXTENDS Integers, Sequences, FiniteSets, TLC

(***************************************************************************)
(* Bounds of the model.                                                    *)
(***************************************************************************)
\* Width in bits of usize in the model (next_id: usize).
IdWidth == 2
\* Longest sequence of load_mesh_map calls explored by SpecCache.
MaxCalls == 5
\* Longest mesh map list (mesh.maps) a scene is given.
MaxMaps == 3
\* Most materials of a mesh, and most map slots of a material.
MaxMaterials == 2
MaxSlots == 2
\* Largest u32 the renderer hands out as a bindless handle.
MaxHandle == 2
\* Most iterations of the frame loop, and most events one poll_events drains.
MaxFrames == 3
MaxEvents == 2

\* usize::MAX
MaxUsize == 2^IdWidth - 1

(***************************************************************************)
(* Keys.  A PathBuf and a [u8; 4] are both byte strings; the two sets      *)
(* share the payload <<255, 0, 0, 255>> on purpose.                        *)
(***************************************************************************)
Paths == { <<255, 0, 0, 255>>, <<97, 46, 112>> }
Colors == { <<255, 0, 0, 255>>, <<0, 0, 0, 255>> }

\* enum MeshMaterialMap { Asset { path, .. }, Placeholder([u8; 4]) }
MeshMaterialMap ==
    [tag : {"Asset"}, path : Paths] \cup [tag : {"Placeholder"}, init_val : Colors]

\* The outcomes of smol::block_on(lazy_handle.eval(&self.lazy_cache)).
EvalOutcomes == {"Ok", "Err"}

\* BindlessImageHandle(u32): the values render_client.add_image may return.
Handles == 1..MaxHandle

VARIABLES
    pc,            \* position of the program (or of the cache's caller)
    panic,         \* the message of the panic that ended the process, or "None"
    image_cache,   \* ImageCache: loaded_images, placeholder_images, next_id
    calls,         \* history: the load_mesh_map calls made so far
    lazy_evals,    \* history: number of lazy_handle.eval calls made so far
    mesh_maps,     \* mesh.maps
    materials,     \* mesh.materials[..].maps
    materials0,    \* history: mesh.materials[..].maps as pack_triangle_mesh gave them
    cached_image_to_bindless_handle,
    mesh_map_gpu_ids,
    add_image_calls,   \* history: the render_client.add_image calls made so far
    writes,        \* history: the slots written by the rewriting loop, in order
    added_mesh,    \* history: the meshes given to render_client.add_mesh
    running,
    last_error_text,
    new_mouse_state,
    mouse_state,
    keyboard_events,
    drained,       \* number of events of this iteration's poll handled so far
    stdout,        \* history: the lines printed by println!
    stderr,        \* history: the lines printed by eprintln!
    frames,        \* history: one record for each prepare_frame call
    frame_state,   \* the FrameState of the iteration
    iterations,    \* history: number of iterations of the frame loop begun
    steps          \* history: the steps of the latest iteration, in order

cacheVars == <<image_cache, calls, lazy_evals>>
loadVars == <<mesh_maps, materials, materials0, cached_image_to_bindless_handle,
              mesh_map_gpu_ids, add_image_calls, writes, added_mesh>>
histVars == <<iterations, steps>>
frameVars == <<running, last_error_text, new_mouse_state, mouse_state, keyboard_events,
               drained, stdout, stderr, frames, frame_state, histVars>>
vars == <<pc, panic, cacheVars, loadVars, frameVars>>

(***************************************************************************)
(* ImageCache                                                              *)
(***************************************************************************)
\* ImageCache::new
ImageCacheNew ==
    [loaded_images |-> <<>>, placeholder_images |-> <<>>, next_id |-> 0]

\* HashMap::insert
Insert(m, k, v) == [x \in DOMAIN m \cup {k} |-> IF x = k THEN v ELSE m[x]]

\* usize::wrapping_add(1): what checked_add must not be.
wrapping_add_1(n) == [some |-> TRUE, val |-> (n + 1) % (MaxUsize + 1)]

\* usize::checked_add(1): None on overflow.
checked_add_1(n) ==
    IF n + 1 > MaxUsize THEN [some |-> FALSE, val |-> 0]
                        ELSE [some |-> TRUE, val |-> n + 1]

\* RawRgba8Image built from a placeholder colour.
PlaceholderImage(init_val) == [data |-> init_val, dimensions |-> <<1, 1>>]

\* The image a successful evaluation of LoadImage { path } yields.
LoadedImage(path) == [decoded_from |-> path]

Hit(id) == [kind |-> "Hit", id |-> id]
Miss(id, image) == [kind |-> "Miss", id |-> id, image |-> image]
Err(path) == [kind |-> "Err", cause |-> path]
Panic(msg) == [kind |-> "Panic", msg |-> msg]

\* A cache test that never finds the key.
AssetIsCachedNever(self, path) == FALSE

\* self.loaded_images.contains_key(path)
AssetIsCached(self, path) == path \in DOMAIN self.loaded_images

\* self.placeholder_images.contains_key(init_val)
PlaceholderIsCached(self, init_val) == init_val \in DOMAIN self.placeholder_images

\* An allocation that hands out next_id without advancing it.
AllocIdStuck(self) == [ok |-> TRUE, id |-> self.next_id, next_id |-> self.next_id]

\* An allocation that wraps around instead of failing.
AllocIdWrapping(self) ==
    [ok |-> TRUE, id |-> self.next_id, next_id |-> wrapping_add_1(self.next_id).val]

\* let id = self.next_id;
\* self.next_id = self.next_id.checked_add(1).expect("Ran out of image IDs");
AllocId(self) ==
    LET n == checked_add_1(self.next_id)
    IN  IF n.some THEN [ok |-> TRUE, id |-> self.next_id, next_id |-> n.val]
                  ELSE [ok |-> FALSE, id |-> self.next_id, next_id |-> self.next_id]

\* The Asset arm with the evaluation made before the cache test.
LoadAssetEager(self, path, eval) ==
    IF eval = "Err"
    THEN [self |-> self, ret |-> Err(path), lazy |-> 1]
    ELSE IF ~AssetIsCached(self, path)
         THEN LET a == AllocId(self)
              IN  IF ~a.ok
                  THEN [self |-> self, ret |-> Panic("Ran out of image IDs"), lazy |-> 1]
                  ELSE [self |-> [self EXCEPT
                                    !.next_id = a.next_id,
                                    !.loaded_images = Insert(@, path, [id |-> a.id])],
                        ret |-> Miss(a.id, LoadedImage(path)),
                        lazy |-> 1]
         ELSE [self |-> self, ret |-> Hit(self.loaded_images[path].id), lazy |-> 1]

\* The Asset arm with the id taken before the evaluation.
LoadAssetIdFirst(self, path, eval) ==
    IF ~AssetIsCached(self, path)
    THEN LET a == AllocId(self)
         IN  IF ~a.ok
             THEN [self |-> self, ret |-> Panic("Ran out of image IDs"), lazy |-> 0]
             ELSE IF eval = "Err"
                  THEN [self |-> [self EXCEPT !.next_id = a.next_id],
                        ret |-> Err(path), lazy |-> 1]
                  ELSE [self |-> [self EXCEPT
                                    !.next_id = a.next_id,
                                    !.loaded_images = Insert(@, path, [id |-> a.id])],
                        ret |-> Miss(a.id, LoadedImage(path)),
                        lazy |-> 1]
    ELSE [self |-> self, ret |-> Hit(self.loaded_images[path].id), lazy |-> 0]

\* load_mesh_map, arm MeshMaterialMap::Asset { path, .. }.  eval is the outcome
\* the evaluation of the lazy handle has if it is made; lazy counts the
\* evaluations made.
LoadAsset(self, path, eval) ==
    IF ~AssetIsCached(self, path)
    THEN IF eval = "Err"
         THEN [self |-> self, ret |-> Err(path), lazy |-> 1]
         ELSE LET a == AllocId(self)
              IN  IF ~a.ok
                  THEN [self |-> self, ret |-> Panic("Ran out of image IDs"), lazy |-> 1]
                  ELSE [self |-> [self EXCEPT
                                    !.next_id = a.next_id,
                                    !.loaded_images = Insert(@, path, [id |-> a.id])],
                        ret |-> Miss(a.id, LoadedImage(path)),
                        lazy |-> 1]
    ELSE [self |-> self, ret |-> Hit(self.loaded_images[path].id), lazy |-> 0]

\* load_mesh_map, arm MeshMaterialMap::Placeholder(init_val).
LoadPlaceholder(self, init_val) ==
    IF ~PlaceholderIsCached(self, init_val)
    THEN LET a == AllocId(self)
         IN  IF ~a.ok
             THEN [self |-> self, ret |-> Panic("Ran out of image IDs"), lazy |-> 0]
             ELSE [self |-> [self EXCEPT
                               !.next_id = a.next_id,
                               !.placeholder_images = Insert(@, init_val, a.id)],
                   ret |-> Miss(a.id, PlaceholderImage(init_val)),
                   lazy |-> 0]
    ELSE [self |-> self, ret |-> Hit(self.placeholder_images[init_val]), lazy |-> 0]

\* A load_mesh_map that keeps placeholders in the table of the asset paths.
load_mesh_map_one_table(self, map, eval) ==
    IF map.tag = "Asset"
    THEN LoadAsset(self, map.path, eval)
    ELSE LET r == LoadAsset(self, map.init_val, "Ok")
         IN  [r EXCEPT !.lazy = 0]

\* ImageCache::load_mesh_map
load_mesh_map(self, map, eval) ==
    IF map.tag = "Asset"
    THEN LoadAsset(self, map.path, eval)
    ELSE LoadPlaceholder(self, map.init_val)

(***************************************************************************)
(* The image cache under an arbitrary caller.                              *)
(***************************************************************************)
NoMesh ==
    /\ mesh_maps = <<>>
    /\ materials = <<>>
    /\ materials0 = <<>>
    /\ cached_image_to_bindless_handle = <<>>
    /\ mesh_map_gpu_ids = <<>>
    /\ add_image_calls = <<>>
    /\ writes = <<>>
    /\ added_mesh = <<>>

\* MouseState::default()
MouseStateDefault == [pos |-> <<0, 0>>, button_mask |-> 0]

\* FrameState { camera_matrices, window_cfg, input }: the camera is known by
\* the number of updates it has had, the input by its mouse state.
FrameState(camera_updates, mouse) ==
    [camera_matrices |-> [updates |-> camera_updates],
     window_cfg |-> [width |-> 1280, height |-> 720],
     input |-> [mouse |-> mouse]]

\* The locals of try_main as lines 142 to 151 and 190 set them.
NoFrame ==
    /\ running = TRUE
    /\ last_error_text = "None"
    /\ new_mouse_state = MouseStateDefault
    /\ mouse_state = MouseStateDefault
    /\ keyboard_events = <<>>
    /\ drained = 0
    /\ stdout = <<>>
    /\ stderr = <<>>
    /\ frames = <<>>
    /\ frame_state = FrameState(0, MouseStateDefault)
    /\ iterations = 0
    /\ steps = <<>>

InitCache ==
    /\ pc = "api"
    /\ panic = "None"
    /\ image_cache = ImageCacheNew
    /\ calls = <<>>
    /\ lazy_evals = 0
    /\ NoMesh
    /\ NoFrame

\* One call of load_mesh_map by the caller; a panic ends the process.
CallLoadMeshMap ==
    /\ pc = "api"
    /\ Len(calls) < MaxCalls
    /\ \E map \in MeshMaterialMap, eval \in EvalOutcomes :
         LET r == load_mesh_map(image_cache, map, eval)
         IN  /\ image_cache' = r.self
             /\ calls' = Append(calls, [map |-> map, pre |-> image_cache, ret |-> r.ret,
                                        evaluated |-> IF r.lazy = 0 THEN "NotInvoked"
                                                                    ELSE eval])
             /\ lazy_evals' = lazy_evals + r.lazy
             /\ pc' = IF r.ret.kind = "Panic" THEN "panicked" ELSE "api"
             /\ panic' = IF r.ret.kind = "Panic" THEN r.ret.msg ELSE "None"
    /\ UNCHANGED <<loadVars, frameVars>>

NextCache == CallLoadMeshMap

SpecCache == InitCache /\ [][NextCache]_vars

(***************************************************************************)
(* try_main: start-up and the resolution of the mesh's maps.               *)
(***************************************************************************)
\* Sequences over S of length at most n.
SeqUpTo(S, n) == UNION {[1..k -> S] : k \in 0..n}

\* The meshes pack_triangle_mesh may give: every material slot is an index
\* into the mesh's own map list.
Meshes ==
    {[maps |-> maps, materials |-> mats] :
        maps \in SeqUpTo(MeshMaterialMap, MaxMaps),
        mats \in SeqUpTo(SeqUpTo(0..(MaxMaps - 1), MaxSlots), MaxMaterials)}

WellFormed(mesh) ==
    \A mi \in 1..Len(mesh.materials) :
        \A si \in 1..Len(mesh.materials[mi]) :
            mesh.materials[mi][si] < Len(mesh.maps)

Init ==
    /\ pc = "start"
    /\ panic = "None"
    /\ image_cache = ImageCacheNew
    /\ calls = <<>>
    /\ lazy_evals = 0
    /\ NoMesh
    /\ NoFrame

\* try_main up to the packed mesh (lines 116 to 164), every fallible step
\* succeeding: the scene's mesh is an input.
StartupFrom(meshes) ==
    /\ pc = "start"
    /\ \E mesh \in meshes :
         /\ WellFormed(mesh)
         /\ mesh_maps' = mesh.maps
         /\ materials' = mesh.materials
         /\ materials0' = mesh.materials
    /\ image_cache' = ImageCacheNew
    /\ cached_image_to_bindless_handle' = <<>>
    /\ pc' = "load_maps"
    /\ UNCHANGED <<panic, calls, lazy_evals, mesh_map_gpu_ids, add_image_calls,
                   writes, added_mesh, frameVars>>

Startup == StartupFrom(Meshes)

\* One of the ?-steps of lines 116 to 158 fails: try_main returns the error
\* and main, having printed it, loops forever.
StartupFails ==
    /\ pc = "start"
    /\ pc' = "err_loop"
    /\ stderr' = Append(stderr, "ERROR: startup")
    /\ UNCHANGED <<panic, cacheVars, loadVars, running, last_error_text, new_mouse_state,
                   mouse_state, keyboard_events, drained, stdout, frames, frame_state,
                   histVars>>

\* A main that leaves after the error is printed.
MainSpinExits ==
    /\ pc = "err_loop"
    /\ pc' = "done"
    /\ UNCHANGED <<panic, cacheVars, loadVars, frameVars>>

\* main's loop {}.
MainSpin ==
    /\ pc = "err_loop"
    /\ UNCHANGED vars

\* An insert that loses the entry.
RegisterHandleLost(table, id, handle) == table

\* cached_image_to_bindless_handle.insert(id, handle)
RegisterHandle(table, id, handle) == Insert(table, id, handle)

\* A turn of the closure that goes on after a failed load: the map gets a
\* handle that stands for the missing image, and the next map is loaded.
LoadMapSkippingFailures ==
    /\ pc = "load_maps"
    /\ Len(mesh_map_gpu_ids) < Len(mesh_maps)
    /\ \E eval \in EvalOutcomes, new_handle \in Handles :
         LET map == mesh_maps[Len(mesh_map_gpu_ids) + 1]
             r == load_mesh_map(image_cache, map, eval)
             table == cached_image_to_bindless_handle
         IN  /\ image_cache' = r.self
             /\ calls' = Append(calls, [map |-> map, pre |-> image_cache, ret |-> r.ret,
                                        evaluated |-> IF r.lazy = 0 THEN "NotInvoked"
                                                                    ELSE eval])
             /\ lazy_evals' = lazy_evals + r.lazy
             /\ CASE r.ret.kind = "Panic" ->
                       /\ pc' = "panicked"
                       /\ panic' = r.ret.msg
                       /\ UNCHANGED <<cached_image_to_bindless_handle, mesh_map_gpu_ids,
                                      add_image_calls>>
                  [] r.ret.kind = "Err" ->
                       /\ mesh_map_gpu_ids' = Append(mesh_map_gpu_ids, new_handle)
                       /\ UNCHANGED <<pc, panic, cached_image_to_bindless_handle,
                                      add_image_calls>>
                  [] r.ret.kind = "Hit" ->
                       IF r.ret.id \in DOMAIN table
                       THEN /\ mesh_map_gpu_ids' = Append(mesh_map_gpu_ids, table[r.ret.id])
                            /\ UNCHANGED <<pc, panic, cached_image_to_bindless_handle,
                                           add_image_calls>>
                       ELSE /\ pc' = "panicked"
                            /\ panic' = "key not found"
                            /\ UNCHANGED <<cached_image_to_bindless_handle,
                                           mesh_map_gpu_ids, add_image_calls>>
                  [] r.ret.kind = "Miss" ->
                       /\ add_image_calls' = Append(add_image_calls,
                                                    [image |-> r.ret.image,
                                                     handle |-> new_handle])
                       /\ cached_image_to_bindless_handle'
                            = RegisterHandle(table, r.ret.id, new_handle)
                       /\ mesh_map_gpu_ids' = Append(mesh_map_gpu_ids, new_handle)
                       /\ UNCHANGED <<pc, panic>>
    /\ UNCHANGED <<mesh_maps, materials, materials0, writes, added_mesh, frameVars>>

\* One turn of the closure over mesh.maps (lines 169 to 179) for the next map:
\* load_mesh_map(map).unwrap(), then the handle of a Hit is looked up and the
\* image of a Miss is added to the renderer and its handle recorded.
LoadMap ==
    /\ pc = "load_maps"
    /\ Len(mesh_map_gpu_ids) < Len(mesh_maps)
    /\ \E eval \in EvalOutcomes, new_handle \in Handles :
         LET map == mesh_maps[Len(mesh_map_gpu_ids) + 1]
             r == load_mesh_map(image_cache, map, eval)
             table == cached_image_to_bindless_handle
         IN  /\ image_cache' = r.self
             /\ calls' = Append(calls, [map |-> map, pre |-> image_cache, ret |-> r.ret,
                                        evaluated |-> IF r.lazy = 0 THEN "NotInvoked"
                                                                    ELSE eval])
             /\ lazy_evals' = lazy_evals + r.lazy
             /\ CASE r.ret.kind = "Panic" ->
                       /\ pc' = "panicked"
                       /\ panic' = r.ret.msg
                       /\ UNCHANGED <<cached_image_to_bindless_handle, mesh_map_gpu_ids,
                                      add_image_calls>>
                  [] r.ret.kind = "Err" ->
                       /\ pc' = "panicked"
                       /\ panic' = "unwrap on Err"
                       /\ UNCHANGED <<cached_image_to_bindless_handle, mesh_map_gpu_ids,
                                      add_image_calls>>
                  [] r.ret.kind = "Hit" ->
                       IF r.ret.id \in DOMAIN table
                       THEN /\ mesh_map_gpu_ids' = Append(mesh_map_gpu_ids, table[r.ret.id])
                            /\ UNCHANGED <<pc, panic, cached_image_to_bindless_handle,
                                           add_image_calls>>
                       ELSE /\ pc' = "panicked"
                            /\ panic' = "key not found"
                            /\ UNCHANGED <<cached_image_to_bindless_handle,
                                           mesh_map_gpu_ids, add_image_calls>>
                  [] r.ret.kind = "Miss" ->
                       /\ add_image_calls' = Append(add_image_calls,
                                                    [image |-> r.ret.image,
                                                     handle |-> new_handle])
                       /\ cached_image_to_bindless_handle'
                            = RegisterHandle(table, r.ret.id, new_handle)
                       /\ mesh_map_gpu_ids' = Append(mesh_map_gpu_ids, new_handle)
                       /\ UNCHANGED <<pc, panic>>
    /\ UNCHANGED <<mesh_maps, materials, materials0, writes, added_mesh, frameVars>>

\* .collect(): every map has its handle.
Collect ==
    /\ pc = "load_maps"
    /\ Len(mesh_map_gpu_ids) = Len(mesh_maps)
    /\ pc' = "rewrite"
    /\ UNCHANGED <<panic, cacheVars, loadVars, frameVars>>

(***************************************************************************)
(* The rewriting of the materials' map slots (lines 181 to 185).           *)
(***************************************************************************)
\* The slots <<material, slot>> of mats (from material mi on) in the order of
\* the two nested loops.
RECURSIVE SlotsFrom(_, _)
SlotsFrom(mats, mi) ==
    IF mi > Len(mats) THEN <<>>
    ELSE [si \in 1..Len(mats[mi]) |-> <<mi, si>>] \o SlotsFrom(mats, mi + 1)

SlotOrder(mats) == SlotsFrom(mats, 1)

\* A resolution that always takes the first handle.
ResolveSlotFirst(gpu_ids, m) == gpu_ids[1]

\* mesh_map_gpu_ids[*m as usize].0 (sequences start at 1)
ResolveSlot(gpu_ids, m) == gpu_ids[m + 1]

\* *m = mesh_map_gpu_ids[*m as usize].0 for the next slot of the loops.
RewriteSlot ==
    /\ pc = "rewrite"
    /\ Len(writes) < Len(SlotOrder(materials))
    /\ LET at == SlotOrder(materials)[Len(writes) + 1]
           m == materials[at[1]][at[2]]
       IN  IF m < Len(mesh_map_gpu_ids)
           THEN /\ materials' = [materials EXCEPT
                                   ![at[1]][at[2]] = ResolveSlot(mesh_map_gpu_ids, m)]
                /\ writes' = Append(writes, at)
                /\ UNCHANGED <<pc, panic>>
           ELSE /\ pc' = "panicked"
                /\ panic' = "index out of bounds"
                /\ UNCHANGED <<materials, writes>>
    /\ UNCHANGED <<cacheVars, mesh_maps, materials0, cached_image_to_bindless_handle,
                   mesh_map_gpu_ids, add_image_calls, added_mesh, frameVars>>

\* render_client.add_mesh(mesh), once both loops are through.
AddMesh ==
    /\ pc = "rewrite"
    /\ Len(writes) = Len(SlotOrder(materials))
    /\ added_mesh' = Append(added_mesh, [maps |-> mesh_maps, materials |-> materials])
    /\ pc' = "frame_loop"
    /\ UNCHANGED <<panic, cacheVars, mesh_maps, materials, materials0,
                   cached_image_to_bindless_handle, mesh_map_gpu_ids, add_image_calls,
                   writes, frameVars>>

NextLoad ==
    \/ Startup
    \/ StartupFails
    \/ MainSpin
    \/ LoadMap
    \/ Collect
    \/ RewriteSlot
    \/ AddMesh

\* main and try_main up to the entry of the frame loop, for every mesh.
SpecLoad == Init /\ [][NextLoad]_vars

(***************************************************************************)
(* try_main: the frame loop (lines 190 to 264).                            *)
(***************************************************************************)
MouseButtons == {"Left", "Middle", "Right", "Other"}
Positions == { <<0, 0>>, <<3, 1>> }

\* The winit events one poll can deliver.
Events ==
    {[type |-> "CloseRequested"], [type |-> "Other"]}
        \cup [type : {"KeyboardInput"}, input : {"key"}]
        \cup [type : {"CursorMoved"}, position : Positions]
        \cup [type : {"MouseInput"}, state : {"Pressed", "Released"}, button : MouseButtons]

\* The errors prepare_frame may return, and what format!("{:?}", e) makes of
\* each: two of them print alike.
PrepareErrors == {"e1", "e2", "e3"}
DebugFormat(e) == IF e = "e1" THEN "text A" ELSE "text B"

\* Bit b of a button mask.
Bit(mask, b) == (mask \div (2^b)) % 2

\* match button { Left => 0, Middle => 1, Right => 2, _ => 0 }
ButtonId(button) ==
    CASE button = "Left" -> 0
      [] button = "Middle" -> 1
      [] button = "Right" -> 2
      [] OTHER -> 0

\* button_mask = 1 << button_id: the press of a button drops the other bits.
SetBitOnly(mask, b) == 2^b

\* button_mask |= 1 << button_id
SetBit(mask, b) == IF Bit(mask, b) = 1 THEN mask ELSE mask + 2^b

\* button_mask &= !(1 << button_id)
ClearBit(mask, b) == IF Bit(mask, b) = 1 THEN mask - 2^b ELSE mask

\* The while condition fails: try_main returns Ok(()) and main returns.
LoopExit ==
    /\ pc = "frame_loop"
    /\ ~running
    /\ pc' = "done"
    /\ UNCHANGED <<panic, cacheVars, loadVars, frameVars>>

\* A poll at the head of an iteration that hands the mesh to the renderer
\* again: add_mesh inside the loop.
PollEventsAddingMesh ==
    /\ pc = "frame_loop"
    /\ running
    /\ Len(frames) < MaxFrames
    /\ added_mesh' = Append(added_mesh, [maps |-> mesh_maps, materials |-> materials])
    /\ drained' = 0
    /\ pc' = "events"
    /\ iterations' = iterations + 1
    /\ steps' = << [op |-> "poll_events"] >>
    /\ UNCHANGED <<panic, cacheVars, mesh_maps, materials, materials0,
                   cached_image_to_bindless_handle, mesh_map_gpu_ids, add_image_calls,
                   writes, running, last_error_text, new_mouse_state,
                   mouse_state, keyboard_events, stdout, stderr, frames, frame_state>>

\* event_loop.poll_events collects the pending events of an iteration.
PollEvents ==
    /\ pc = "frame_loop"
    /\ running
    /\ Len(frames) < MaxFrames
    /\ drained' = 0
    /\ pc' = "events"
    /\ iterations' = iterations + 1
    /\ steps' = << [op |-> "poll_events"] >>
    /\ UNCHANGED <<panic, cacheVars, loadVars, running, last_error_text, new_mouse_state,
                   mouse_state, keyboard_events, stdout, stderr, frames, frame_state>>

\* A turn of the loop over the polled events whose CloseRequested arm leaves
\* the iteration at once, for the head of the frame loop.
HandleEventFromBreaking(events) ==
    /\ pc = "events"
    /\ drained < MaxEvents
    /\ drained' = drained + 1
    /\ \E event \in events :
         /\ steps' = Append(steps, [op |-> "event",
                                    close |-> event.type = "CloseRequested"])
         /\ pc' = IF event.type = "CloseRequested" THEN "frame_loop" ELSE pc
         /\ running' = (running /\ event.type # "CloseRequested")
         /\ keyboard_events' = IF event.type = "KeyboardInput"
                               THEN Append(keyboard_events, event.input)
                               ELSE keyboard_events
         /\ new_mouse_state' =
              CASE event.type = "CursorMoved" ->
                     [new_mouse_state EXCEPT !.pos = event.position]
                [] event.type = "MouseInput" ->
                     [new_mouse_state EXCEPT
                        !.button_mask = IF event.state = "Pressed"
                                        THEN SetBit(@, ButtonId(event.button))
                                        ELSE ClearBit(@, ButtonId(event.button))]
                [] OTHER -> new_mouse_state
    /\ UNCHANGED <<panic, cacheVars, loadVars, last_error_text, mouse_state, stdout,
                   stderr, frames, frame_state, iterations>>

\* One turn of the loop over the polled events (lines 197 to 225); the event is
\* the next one of the polled list.
HandleEventFrom(events) ==
    /\ pc = "events"
    /\ drained < MaxEvents
    /\ drained' = drained + 1
    /\ \E event \in events :
         /\ steps' = Append(steps, [op |-> "event",
                                    close |-> event.type = "CloseRequested"])
         /\ CASE event.type = "CloseRequested" ->
                   /\ running' = FALSE
                   /\ UNCHANGED <<keyboard_events, new_mouse_state>>
              [] event.type = "KeyboardInput" ->
                   /\ keyboard_events' = Append(keyboard_events, event.input)
                   /\ UNCHANGED <<running, new_mouse_state>>
              [] event.type = "CursorMoved" ->
                   /\ new_mouse_state' = [new_mouse_state EXCEPT !.pos = event.position]
                   /\ UNCHANGED <<running, keyboard_events>>
              [] event.type = "MouseInput" ->
                   /\ new_mouse_state' =
                        [new_mouse_state EXCEPT
                           !.button_mask = IF event.state = "Pressed"
                                           THEN SetBit(@, ButtonId(event.button))
                                           ELSE ClearBit(@, ButtonId(event.button))]
                   /\ UNCHANGED <<running, keyboard_events>>
              [] OTHER -> UNCHANGED <<running, keyboard_events, new_mouse_state>>
    /\ UNCHANGED <<pc, panic, cacheVars, loadVars, last_error_text, mouse_state, stdout,
                   stderr, frames, frame_state, iterations>>

HandleEvent == HandleEventFrom(Events)

\* MouseState::update: the pending state is folded into the persistent one.
MouseStateUpdate(self, new_state) ==
    [self EXCEPT !.pos = new_state.pos, !.button_mask = new_state.button_mask]

\* The polled list is through: lines 227 to 240.
UpdateInput ==
    /\ pc = "events"
    /\ keyboard_events' = <<>>
    /\ mouse_state' = MouseStateUpdate(mouse_state, new_mouse_state)
    /\ new_mouse_state' = mouse_state'
    /\ pc' = "camera"
    /\ steps' = Append(steps, [op |-> "input"])
    /\ UNCHANGED <<panic, cacheVars, loadVars, running, last_error_text, drained, stdout,
                   stderr, frames, frame_state, iterations>>

\* camera.update(&input_state) and the FrameState (lines 241 to 247).
CameraUpdate ==
    /\ pc = "camera"
    /\ pc' = "prepare"
    /\ frame_state' = FrameState(iterations, mouse_state)
    /\ steps' = Append(steps, [op |-> "camera"])
    /\ UNCHANGED <<panic, cacheVars, loadVars, running, last_error_text, new_mouse_state,
                   mouse_state, keyboard_events, drained, stdout, stderr, frames,
                   iterations>>

\* A success arm that leaves the latch as it is.
LatchAfterDrawKept(last) == last

\* last_error_text = None
LatchAfterDraw(last) == "None"

\* A failure arm that prints without latching.
LatchAfterPrintKept(last, error_text) == last

\* A failure arm that latches the first text only: a later, different text is
\* printed and the latch keeps the earlier one.
LatchAfterPrintFirst(last, error_text) == IF last = "None" THEN error_text ELSE last

\* last_error_text = error_text
LatchAfterPrint(last, error_text) == error_text

\* A success arm that submits the frame before it is prepared.
PrepareOkDrawFirst ==
    /\ pc = "prepare"
    /\ last_error_text' = LatchAfterDraw(last_error_text)
    /\ frames' = Append(frames, [result |-> "Ok", text |-> "None", printed |-> FALSE,
                                 drew |-> TRUE, latch |-> last_error_text'])
    /\ steps' = steps \o << [op |-> "draw_frame", frame_state |-> frame_state],
                            [op |-> "prepare_frame", frame_state |-> frame_state] >>
    /\ pc' = "frame_loop"
    /\ UNCHANGED <<panic, cacheVars, loadVars, running, new_mouse_state, mouse_state,
                   keyboard_events, drained, stdout, stderr, frame_state, iterations>>

\* prepare_frame returns Ok(()): draw_frame, and the latch is cleared.
PrepareOk ==
    /\ pc = "prepare"
    /\ last_error_text' = LatchAfterDraw(last_error_text)
    /\ frames' = Append(frames, [result |-> "Ok", text |-> "None", printed |-> FALSE,
                                 drew |-> TRUE, latch |-> last_error_text'])
    /\ steps' = steps \o << [op |-> "prepare_frame", frame_state |-> frame_state],
                            [op |-> "draw_frame", frame_state |-> frame_state] >>
    /\ pc' = "frame_loop"
    /\ UNCHANGED <<panic, cacheVars, loadVars, running, new_mouse_state, mouse_state,
                   keyboard_events, drained, stdout, stderr, frame_state, iterations>>

\* A failure arm that ends the loop: running is cleared with the failure.
PrepareErrStops ==
    /\ pc = "prepare"
    /\ \E e \in PrepareErrors :
         LET error_text == DebugFormat(e)
         IN  /\ stdout' = IF error_text # last_error_text THEN Append(stdout, error_text)
                                                          ELSE stdout
             /\ last_error_text' = error_text
             /\ frames' = Append(frames, [result |-> e, text |-> error_text,
                                          printed |-> error_text # last_error_text,
                                          drew |-> FALSE, latch |-> error_text])
    /\ running' = FALSE
    /\ steps' = Append(steps, [op |-> "prepare_frame", frame_state |-> frame_state])
    /\ pc' = "frame_loop"
    /\ UNCHANGED <<panic, cacheVars, loadVars, new_mouse_state, mouse_state,
                   keyboard_events, drained, stderr, frame_state, iterations>>

\* prepare_frame returns Err(e): the text is printed unless it is the latched one.
PrepareErr ==
    /\ pc = "prepare"
    /\ \E e \in PrepareErrors :
         LET error_text == DebugFormat(e)
         IN  IF error_text # last_error_text
             THEN /\ stdout' = Append(stdout, error_text)
                  /\ last_error_text' = LatchAfterPrint(last_error_text, error_text)
                  /\ frames' = Append(frames, [result |-> e, text |-> error_text,
                                               printed |-> TRUE, drew |-> FALSE,
                                               latch |-> last_error_text'])
             ELSE /\ UNCHANGED <<stdout, last_error_text>>
                  /\ frames' = Append(frames, [result |-> e, text |-> error_text,
                                               printed |-> FALSE, drew |-> FALSE,
                                               latch |-> last_error_text'])
    /\ steps' = Append(steps, [op |-> "prepare_frame", frame_state |-> frame_state])
    /\ pc' = "frame_loop"
    /\ UNCHANGED <<panic, cacheVars, loadVars, running, new_mouse_state, mouse_state,
                   keyboard_events, drained, stderr, frame_state, iterations>>

\* The scene of the whole-program specification: a path used by two maps and
\* a placeholder, in two materials.
SceneMeshes ==
    {[maps |-> << [tag |-> "Placeholder", init_val |-> <<255, 0, 0, 255>>],
                  [tag |-> "Asset", path |-> <<97, 46, 112>>],
                  [tag |-> "Asset", path |-> <<97, 46, 112>>] >>,
      materials |-> << <<0, 1>>, <<2>> >>]}

StartupScene == StartupFrom(SceneMeshes)

NextMain ==
    \/ StartupScene
    \/ StartupFails
    \/ MainSpin
    \/ LoadMap
    \/ Collect
    \/ RewriteSlot
    \/ AddMesh
    \/ LoopExit
    \/ PollEvents
    \/ HandleEvent
    \/ UpdateInput
    \/ CameraUpdate
    \/ PrepareOk
    \/ PrepareErr

\* main and try_main, start to end, for one scene.
SpecMain == Init /\ [][NextMain]_vars

(***************************************************************************)
(* Reading the history of calls.                                           *)
(***************************************************************************)
\* Equality of ResourceKeys: same tag and same payload.
SameKey(a, b) ==
    /\ a.tag = b.tag
    /\ IF a.tag = "Asset" THEN a.path = b.path ELSE a.init_val = b.init_val

\* The cache as call i left it.
Post(i) == IF i = Len(calls) THEN image_cache ELSE calls[i + 1].pre

\* Call i returned Ok(Hit) or Ok(Miss).
Succeeded(i) == calls[i].ret.kind \in {"Hit", "Miss"}

\* The key of call i is absent from the cache the call found.
KeyIsNew(i) ==
    IF calls[i].map.tag = "Asset"
    THEN calls[i].map.path \notin DOMAIN calls[i].pre.loaded_images
    ELSE calls[i].map.init_val \notin DOMAIN calls[i].pre.placeholder_images

MissesBefore(i) == Cardinality({j \in 1..(i - 1) : calls[j].ret.kind = "Miss"})

\* The ids stored in a cache.
StoredIds(self) ==
    {self.loaded_images[p].id : p \in DOMAIN self.loaded_images}
        \cup {self.placeholder_images[c] : c \in DOMAIN self.placeholder_images}

(***************************************************************************)
(* C3.  The k-th Miss returns id k-1, for asset paths and placeholders     *)
(* alike; no id is attached to two keys; a key's id never changes; and     *)
(* next_id is the number of stored entries, the stored ids being exactly   *)
(* 0..next_id-1.                                                           *)
(***************************************************************************)
IdMonotonicity ==
    /\ \A i \in 1..Len(calls) :
         calls[i].ret.kind = "Miss" => calls[i].ret.id = MissesBefore(i)
    /\ \A i, j \in 1..Len(calls) :
         (Succeeded(i) /\ Succeeded(j))
            => (SameKey(calls[i].map, calls[j].map) <=> calls[i].ret.id = calls[j].ret.id)
    /\ \A i \in 1..Len(calls) :
         LET before == calls[i].pre
             after == Post(i)
         IN  /\ \A p \in DOMAIN before.loaded_images :
                  /\ p \in DOMAIN after.loaded_images
                  /\ after.loaded_images[p].id = before.loaded_images[p].id
             /\ \A c \in DOMAIN before.placeholder_images :
                  /\ c \in DOMAIN after.placeholder_images
                  /\ after.placeholder_images[c] = before.placeholder_images[c]
    /\ image_cache.next_id
         = Cardinality(DOMAIN image_cache.loaded_images)
             + Cardinality(DOMAIN image_cache.placeholder_images)
    /\ StoredIds(image_cache) = 0..(image_cache.next_id - 1)
    /\ \A p \in DOMAIN image_cache.loaded_images,
          c \in DOMAIN image_cache.placeholder_images :
         image_cache.loaded_images[p].id # image_cache.placeholder_images[c]

\* Three Misses, of both kinds of key, and a Hit afterwards.
IdMonotonicityWitness ==
    /\ Len(calls) >= 4
    /\ calls[1].ret.kind = "Miss" /\ calls[1].map.tag = "Placeholder"
    /\ calls[2].ret.kind = "Miss" /\ calls[2].map.tag = "Asset"
    /\ calls[3].ret.kind = "Miss" /\ calls[3].ret.id = 2
    /\ calls[4].ret.kind = "Hit" /\ calls[4].ret.id = 1

(***************************************************************************)
(* C4.  A placeholder key and an asset-path key never collide: a Hit is    *)
(* only ever a Hit on an entry made by an earlier Miss of the same tag and *)
(* payload, and calls with different tags never report the same id, even   *)
(* when the payload bytes are the same.                                    *)
(***************************************************************************)
PlaceholderIsolation ==
    /\ \A j \in 1..Len(calls) :
         calls[j].ret.kind = "Hit"
            => \E i \in 1..(j - 1) :
                 /\ calls[i].ret.kind = "Miss"
                 /\ SameKey(calls[i].map, calls[j].map)
                 /\ calls[i].ret.id = calls[j].ret.id
    /\ \A i, j \in 1..Len(calls) :
         (Succeeded(i) /\ Succeeded(j) /\ calls[i].map.tag # calls[j].map.tag)
            => calls[i].ret.id # calls[j].ret.id

\* The same four bytes loaded as a path, then as a colour, then as a path again.
PlaceholderIsolationWitness ==
    /\ Len(calls) >= 3
    /\ calls[1].map = [tag |-> "Asset", path |-> <<255, 0, 0, 255>>]
    /\ calls[1].ret.kind = "Miss"
    /\ calls[2].map = [tag |-> "Placeholder", init_val |-> <<255, 0, 0, 255>>]
    /\ calls[2].ret.kind = "Miss"
    /\ calls[3].map = [tag |-> "Asset", path |-> <<255, 0, 0, 255>>]
    /\ calls[3].ret.kind = "Hit"

(***************************************************************************)
(* C5.  A failed evaluation is returned as the error and leaves the cache  *)
(* as it was (no entry, next_id not advanced); a later load of the same    *)
(* path evaluates again and, when that succeeds, returns a Miss with the   *)
(* next unused id.                                                         *)
(***************************************************************************)
FailuresNotCached ==
    /\ \A i \in 1..Len(calls) :
         calls[i].evaluated = "Err"
            => /\ calls[i].ret.kind = "Err"
               /\ Post(i) = calls[i].pre
               /\ calls[i].map.path \notin DOMAIN Post(i).loaded_images
    /\ \A i, j \in 1..Len(calls) :
         (/\ i < j
          /\ calls[i].ret.kind = "Err"
          /\ SameKey(calls[i].map, calls[j].map)
          /\ \A k \in (i + 1)..(j - 1) :
               SameKey(calls[i].map, calls[k].map) => calls[k].ret.kind = "Err")
            => /\ calls[j].evaluated # "NotInvoked"
               /\ calls[j].ret.kind # "Hit"
               /\ calls[j].evaluated = "Ok"
                    => \/ /\ calls[j].ret.kind = "Miss"
                          /\ calls[j].ret.id = calls[j].pre.next_id
                          /\ calls[j].ret.id \notin StoredIds(calls[j].pre)
                       \/ /\ calls[j].ret.kind = "Panic"
                          /\ calls[j].pre.next_id = MaxUsize

\* A path fails after one id was issued, then loads: it is a Miss with id 1.
FailuresNotCachedWitness ==
    /\ Len(calls) >= 3
    /\ calls[1].ret.kind = "Miss"
    /\ calls[2].ret.kind = "Err"
    /\ calls[3].ret.kind = "Miss"
    /\ SameKey(calls[2].map, calls[3].map)
    /\ calls[3].ret.id = 1

(***************************************************************************)
(* C9.  A call that returns Hit makes no lazy evaluation and leaves the    *)
(* cache unchanged; a placeholder call never makes one; the number of lazy *)
(* evaluations is the number of asset-path calls that did not return Hit.  *)
(***************************************************************************)
LazyCacheIsolation ==
    /\ \A i \in 1..Len(calls) :
         calls[i].ret.kind = "Hit"
            => (calls[i].evaluated = "NotInvoked" /\ Post(i) = calls[i].pre)
    /\ \A i \in 1..Len(calls) :
         calls[i].map.tag = "Placeholder" => calls[i].evaluated = "NotInvoked"
    /\ lazy_evals
         = Cardinality({i \in 1..Len(calls) :
                          calls[i].map.tag = "Asset" /\ calls[i].ret.kind # "Hit"})

\* A placeholder Miss and Hit, an asset Miss and Hit, one evaluation in all.
LazyCacheIsolationWitness ==
    /\ Len(calls) = 4
    /\ calls[1].map.tag = "Placeholder" /\ calls[1].ret.kind = "Miss"
    /\ calls[2].map.tag = "Placeholder" /\ calls[2].ret.kind = "Hit"
    /\ calls[3].map.tag = "Asset" /\ calls[3].ret.kind = "Miss"
    /\ calls[4].map.tag = "Asset" /\ calls[4].ret.kind = "Hit"
    /\ lazy_evals = 1

(***************************************************************************)
(* C10.  With next_id at usize::MAX, loading a key that is not in the      *)
(* cache panics: it returns neither Ok nor Err; no entry is inserted,      *)
(* next_id never wraps to 0 and no id is issued twice.                     *)
(***************************************************************************)
ExhaustionAlwaysPanics ==
    /\ \A i \in 1..Len(calls) :
         (calls[i].pre.next_id = MaxUsize /\ KeyIsNew(i))
            => (calls[i].ret.kind = "Panic" /\ Post(i) = calls[i].pre)
    /\ \A i \in 1..Len(calls) : Post(i).next_id >= calls[i].pre.next_id
    /\ \A i, j \in 1..Len(calls) :
         (i # j /\ calls[i].ret.kind = "Miss" /\ calls[j].ret.kind = "Miss")
            => calls[i].ret.id # calls[j].ret.id

(***************************************************************************)
(* C10, amended.  With next_id at usize::MAX, loading a key that is not in *)
(* the cache never returns Ok: it panics, except that an asset path whose  *)
(* lazy evaluation fails returns that error, the evaluation coming before  *)
(* the allocation of the id.  Either way no entry is inserted, next_id     *)
(* never wraps to 0 and no id is issued twice.                             *)
(***************************************************************************)
ExhaustionIsFatal ==
    /\ \A i \in 1..Len(calls) :
         (calls[i].pre.next_id = MaxUsize /\ KeyIsNew(i))
            => /\ IF calls[i].evaluated = "Err"
                  THEN calls[i].ret.kind = "Err"
                  ELSE calls[i].ret.kind = "Panic"
               /\ Post(i) = calls[i].pre
    /\ \A i \in 1..Len(calls) : Post(i).next_id >= calls[i].pre.next_id
    /\ \A i, j \in 1..Len(calls) :
         (i # j /\ calls[i].ret.kind = "Miss" /\ calls[j].ret.kind = "Miss")
            => calls[i].ret.id # calls[j].ret.id

\* usize::MAX ids issued; a new path fails to load and the error is returned;
\* the same path then loads and the allocation of its id panics.
ExhaustionIsFatalWitness ==
    /\ Len(calls) = MaxUsize + 2
    /\ calls[MaxUsize + 1].pre.next_id = MaxUsize
    /\ calls[MaxUsize + 1].ret.kind = "Err"
    /\ SameKey(calls[MaxUsize + 1].map, calls[MaxUsize + 2].map)
    /\ calls[MaxUsize + 2].evaluated = "Ok"
    /\ calls[MaxUsize + 2].ret.kind = "Panic"
    /\ pc = "panicked"
    /\ image_cache.next_id = MaxUsize

(***************************************************************************)
(* Reading the histories of the pipeline and of the frame loop.            *)
(***************************************************************************)
\* The image a Miss for this map carries.
ImageOf(map) ==
    IF map.tag = "Asset" THEN LoadedImage(map.path) ELSE PlaceholderImage(map.init_val)

IsAssetImage(image) == "decoded_from" \in DOMAIN image

SameImage(a, b) ==
    /\ IsAssetImage(a) = IsAssetImage(b)
    /\ IF IsAssetImage(a) THEN a.decoded_from = b.decoded_from ELSE a.data = b.data

\* The add_image calls made with the image of this map.
AddImageCallsFor(map) ==
    {k \in 1..Len(add_image_calls) : SameImage(add_image_calls[k].image, ImageOf(map))}

\* The calls that are the first successful one of their key.
FirstOccurrences ==
    {i \in 1..Len(calls) :
        Succeeded(i)
          /\ ~\E j \in 1..(i - 1) : Succeeded(j) /\ SameKey(calls[j].map, calls[i].map)}

(***************************************************************************)
(* C1.  Over the maps the pipeline has loaded, each distinct key gives one *)
(* Miss, on its first occurrence, and a Hit on every later one; all        *)
(* occurrences of a key report the same id; and add_image has been called  *)
(* exactly once for each distinct key.                                     *)
(***************************************************************************)
Dedup ==
    /\ \A i \in 1..Len(calls) :
         Succeeded(i) => (calls[i].ret.kind = "Miss" <=> i \in FirstOccurrences)
    /\ \A i, j \in 1..Len(calls) :
         (Succeeded(i) /\ Succeeded(j) /\ SameKey(calls[i].map, calls[j].map))
            => calls[i].ret.id = calls[j].ret.id
    /\ Len(add_image_calls) = Cardinality(FirstOccurrences)
    /\ \A i \in 1..Len(calls) :
         Succeeded(i) => Cardinality(AddImageCallsFor(calls[i].map)) = 1

\* A path, a colour of the same bytes, and the path again: two images added.
DedupWitness ==
    /\ Len(calls) = 3
    /\ calls[1].map = [tag |-> "Asset", path |-> <<255, 0, 0, 255>>]
    /\ calls[2].map = [tag |-> "Placeholder", init_val |-> <<255, 0, 0, 255>>]
    /\ calls[3].map = calls[1].map
    /\ calls[3].ret.kind = "Hit"
    /\ Len(add_image_calls) = 2
    /\ pc = "rewrite"

(***************************************************************************)
(* C2.  Whenever load_mesh_map returns Hit{id} in the pipeline, the handle *)
(* table holds id, put there when the Miss of the same key was processed:  *)
(* the lookup never fails and yields the handle of that Miss.              *)
(***************************************************************************)
LoadBeforeUse ==
    /\ panic # "key not found"
    /\ \A i \in 1..Len(calls) :
         calls[i].ret.kind = "Hit"
            => /\ calls[i].ret.id \in DOMAIN cached_image_to_bindless_handle
               /\ Len(mesh_map_gpu_ids) >= i
               /\ mesh_map_gpu_ids[i] = cached_image_to_bindless_handle[calls[i].ret.id]
               /\ \E j \in 1..(i - 1) :
                    /\ calls[j].ret.kind = "Miss"
                    /\ SameKey(calls[j].map, calls[i].map)
                    /\ calls[j].ret.id = calls[i].ret.id
                    /\ mesh_map_gpu_ids[j] = mesh_map_gpu_ids[i]

\* Two keys loaded, then both hit in the reverse order.
LoadBeforeUseWitness ==
    /\ Len(calls) = 3
    /\ calls[1].ret.kind = "Miss"
    /\ calls[2].ret.kind = "Miss"
    /\ calls[3].ret = Hit(0)
    /\ Len(mesh_map_gpu_ids) = 3
    /\ mesh_map_gpu_ids[1] # mesh_map_gpu_ids[2]

(***************************************************************************)
(* C8.  The resolved-handle list is as long as the mesh's map list, entry  *)
(* i being the handle registered for the key of map i; the rewriting loop  *)
(* writes each slot once, in order, and a written slot that held local     *)
(* index i holds the handle at position i; so slots whose indices refer to *)
(* maps with equal keys hold the same handle.                              *)
(***************************************************************************)
RewriteCorrectness ==
    pc \in {"rewrite", "frame_loop"} =>
        /\ Len(mesh_map_gpu_ids) = Len(mesh_maps)
        /\ \A i \in 1..Len(mesh_maps) :
             \E k \in AddImageCallsFor(mesh_maps[i]) :
                 add_image_calls[k].handle = mesh_map_gpu_ids[i]
        /\ Len(materials) = Len(materials0)
        /\ Len(writes) <= Len(SlotOrder(materials0))
        /\ pc = "frame_loop" => Len(writes) = Len(SlotOrder(materials0))
        /\ \A n \in 1..Len(SlotOrder(materials0)) :
             LET at == SlotOrder(materials0)[n]
                 local == materials0[at[1]][at[2]]
             IN  /\ Len(materials[at[1]]) = Len(materials0[at[1]])
                 /\ IF n <= Len(writes)
                    THEN /\ writes[n] = at
                         /\ materials[at[1]][at[2]] = mesh_map_gpu_ids[local + 1]
                    ELSE materials[at[1]][at[2]] = local
        /\ \A a, b \in 1..Len(writes) :
             LET la == materials0[writes[a][1]][writes[a][2]]
                 lb == materials0[writes[b][1]][writes[b][2]]
             IN  SameKey(mesh_maps[la + 1], mesh_maps[lb + 1])
                    => materials[writes[a][1]][writes[a][2]]
                         = materials[writes[b][1]][writes[b][2]]

\* Materials [0, 1] and [1] over two maps with handles H0 # H1 become
\* [H0, H1] and [H1].
RewriteCorrectnessWitness ==
    /\ pc = "frame_loop"
    /\ materials0 = << <<0, 1>>, <<1>> >>
    /\ Len(mesh_map_gpu_ids) = 2
    /\ mesh_map_gpu_ids[1] # mesh_map_gpu_ids[2]
    /\ materials = << <<mesh_map_gpu_ids[1], mesh_map_gpu_ids[2]>>, <<mesh_map_gpu_ids[2]>> >>

\* The last successful prepare before frame i, or 0.
LastOkBefore(i) ==
    LET oks == {j \in 1..(i - 1) : frames[j].result = "Ok"}
    IN  IF oks = {} THEN 0 ELSE CHOOSE j \in oks : \A k \in oks : k <= j

\* The text of the most recent diagnostic emitted since the last successful
\* prepare before frame i, or "None".
LatchedBefore(i) ==
    LET emitted == {j \in (LastOkBefore(i) + 1)..(i - 1) : frames[j].printed}
    IN  IF emitted = {} THEN "None"
        ELSE frames[CHOOSE j \in emitted : \A k \in emitted : k <= j].text

Failed(i) == frames[i].result # "Ok"

\* The texts of the frames that printed, in order.
RECURSIVE PrintedTexts(_)
PrintedTexts(n) ==
    IF n = 0 THEN <<>>
    ELSE IF frames[n].printed THEN Append(PrintedTexts(n - 1), frames[n].text)
         ELSE PrintedTexts(n - 1)

(***************************************************************************)
(* C6.  A failing frame prints its text if and only if the text differs    *)
(* from the latched one, the text of the most recent diagnostic since the  *)
(* last successful prepare; so a run of failing frames with one text       *)
(* prints one line, and a following failure with another text one more.    *)
(***************************************************************************)
ErrorDedup ==
    /\ \A i \in 1..Len(frames) :
         Failed(i) => (frames[i].printed <=> frames[i].text # LatchedBefore(i))
    /\ last_error_text = LatchedBefore(Len(frames) + 1)
    /\ stdout = PrintedTexts(Len(frames))
    /\ \A i, j \in 1..Len(frames) :
         (i <= j /\ \A k \in i..j : Failed(k) /\ frames[k].text = frames[i].text)
            => Cardinality({k \in i..j : frames[k].printed})
                 = IF i > 1 /\ Failed(i - 1) /\ frames[i - 1].text = frames[i].text
                   THEN 0 ELSE 1
    /\ \A i \in 2..Len(frames) :
         (Failed(i) /\ Failed(i - 1) /\ frames[i].text # frames[i - 1].text)
            => frames[i].printed

\* Two different errors that print alike, then one that prints otherwise:
\* two lines.
ErrorDedupWitness ==
    /\ Len(frames) = 3
    /\ frames[1].result = "e2"
    /\ frames[2].result = "e3"
    /\ frames[3].result = "e1"
    /\ stdout = <<"text B", "text A">>

(***************************************************************************)
(* C7.  A frame whose prepare_frame succeeds calls draw_frame and leaves   *)
(* the latch None, also after a failing frame; so a failure that follows a *)
(* successful frame prints its text again, be it the same as before.       *)
(***************************************************************************)
Recovery ==
    /\ \A i \in 1..Len(frames) :
         /\ frames[i].drew <=> frames[i].result = "Ok"
         /\ frames[i].result = "Ok" => frames[i].latch = "None"
    /\ (frames # <<>> /\ frames[Len(frames)].result = "Ok") => last_error_text = "None"
    /\ \A i \in 2..Len(frames) :
         (Failed(i) /\ frames[i - 1].result = "Ok") => frames[i].printed

\* The same failure before and after a successful frame: printed twice.
RecoveryWitness ==
    /\ Len(frames) = 3
    /\ frames[1].result = "e1"
    /\ frames[2].result = "Ok" /\ frames[2].drew
    /\ frames[3].result = "e1"
    /\ stdout = <<"text A", "text A">>
    /\ last_error_text = "text A"

(***************************************************************************)
(* C11.  The handle table is write-once through the startup pipeline: a    *)
(* step never removes an entry nor changes the handle of one; a step that  *)
(* changes the table adds exactly one logical id that was not in it, with  *)
(* the handle of the add_image call made in that step; so the table has as *)
(* many entries as inserts were made, each id inserted once.               *)
(***************************************************************************)
HandleTableWriteOnce ==
    [][/\ \A id \in DOMAIN cached_image_to_bindless_handle :
            /\ id \in DOMAIN cached_image_to_bindless_handle'
            /\ cached_image_to_bindless_handle'[id] = cached_image_to_bindless_handle[id]
       /\ cached_image_to_bindless_handle' # cached_image_to_bindless_handle =>
            /\ Len(add_image_calls') = Len(add_image_calls) + 1
            /\ \E id \in DOMAIN cached_image_to_bindless_handle' :
                 /\ id \notin DOMAIN cached_image_to_bindless_handle
                 /\ DOMAIN cached_image_to_bindless_handle'
                      = DOMAIN cached_image_to_bindless_handle \cup {id}
                 /\ cached_image_to_bindless_handle'[id]
                      = add_image_calls'[Len(add_image_calls')].handle
       /\ Cardinality(DOMAIN cached_image_to_bindless_handle') = Len(add_image_calls')
      ]_vars

\* Two ids were inserted with different handles, a third map was a Hit, and
\* the pipeline went on to the rewriting with both entries in place.
HandleTableWriteOnceWitness ==
    /\ pc = "rewrite"
    /\ Len(mesh_map_gpu_ids) = 3
    /\ Len(add_image_calls) = 2
    /\ DOMAIN cached_image_to_bindless_handle = {0, 1}
    /\ cached_image_to_bindless_handle[0] # cached_image_to_bindless_handle[1]
    /\ \E i \in 1..Len(calls) : calls[i].ret.kind = "Hit"

(***************************************************************************)
(* Helpers of the frame-loop properties.                                   *)
(***************************************************************************)
\* The step is a call of prepare_frame, and the call fails.
PrepareFails ==
    /\ Len(frames') = Len(frames) + 1
    /\ frames'[Len(frames')].result # "Ok"

\* The step handles a CloseRequested event.
HandlesClose ==
    /\ pc = "events"
    /\ steps' = Append(steps, [op |-> "event", close |-> TRUE])

\* The step ends an iteration of the frame loop.
EndsIteration == pc # "frame_loop" /\ pc' = "frame_loop" /\ iterations' > 0

(***************************************************************************)
(* C12.  A failing prepare_frame does not end the frame loop: the step of  *)
(* a failing call leaves running as it was and goes back to the head of    *)
(* the loop; running changes only in a step that handles a CloseRequested  *)
(* event, and only to false; while running holds the head of the loop      *)
(* starts the next iteration, and every iteration that ends has made its   *)
(* prepare_frame call, so none is skipped after a failure.                 *)
(***************************************************************************)
FailureKeepsRunning ==
    [][/\ PrepareFails => (running' = running /\ pc' = "frame_loop")
       /\ running' # running => (HandlesClose /\ running /\ ~running')
       /\ (pc = "frame_loop" /\ running) =>
            (pc' = "events" /\ iterations' = iterations + 1 /\ frames' = frames)
       /\ EndsIteration => Len(frames') = iterations'
       /\ pc' = "done" => ~running'
      ]_vars

\* Two iterations failed one after the other, the loop went on to a third
\* that failed as well, and running still holds.
FailureKeepsRunningWitness ==
    /\ pc = "frame_loop"
    /\ running
    /\ iterations = 3
    /\ Len(frames) = 3
    /\ \A i \in 1..3 : frames[i].result # "Ok"

\* The latest iteration handled a CloseRequested event and went on through
\* the input update, the camera update and prepare_frame, with draw_frame
\* after a successful prepare_frame and nothing after a failing one.
ClosedIterationWentThrough ==
    /\ frames # <<>>
    /\ Len(frames) = iterations
    /\ \E k \in 1..Len(steps) :
         /\ steps[k].op = "event"
         /\ steps[k].close
         /\ \E j \in (k + 1)..Len(steps) :
              /\ \A i \in (k + 1)..(j - 1) : steps[i].op = "event"
              /\ steps[j].op = "input"
              /\ Len(steps) >= j + 2
              /\ steps[j + 1].op = "camera"
              /\ steps[j + 2].op = "prepare_frame"
              /\ IF frames[Len(frames)].result = "Ok"
                 THEN Len(steps) = j + 3 /\ steps[j + 3].op = "draw_frame"
                 ELSE Len(steps) = j + 2

(***************************************************************************)
(* C13.  A CloseRequested event clears running and the iteration goes on:  *)
(* the step that handles it stays in the drain, where with running false   *)
(* the further events are handled and the input update follows, then the   *)
(* camera update and prepare_frame; at the head of the loop with running   *)
(* false no iteration is begun and try_main returns Ok, having gone        *)
(* through the whole of its last iteration, draw_frame included when       *)
(* prepare_frame succeeded.                                                *)
(***************************************************************************)
CloseFinishesIteration ==
    [][/\ HandlesClose => (~running' /\ pc' = "events" /\ drained' = drained + 1)
       /\ (pc = "events" /\ ~running) =>
            \/ pc' = "events" /\ drained' = drained + 1 /\ Len(steps') = Len(steps) + 1
            \/ pc' = "camera" /\ steps' = Append(steps, [op |-> "input"])
       /\ (pc = "camera" /\ ~running) => pc' = "prepare"
       /\ (pc = "prepare" /\ ~running) =>
            (pc' = "frame_loop" /\ Len(frames') = Len(frames) + 1)
       /\ (pc = "frame_loop" /\ ~running) =>
            (pc' = "done" /\ iterations' = iterations /\ frames' = frames)
       /\ pc' = "done" => (ClosedIterationWentThrough' /\ stderr' = <<>> /\ panic' = panic)
      ]_vars

\* try_main has returned after a second iteration whose drain handled the
\* CloseRequested event first and a button press after it: the press is in
\* the mouse state of the frame, which was prepared and drawn.
CloseFinishesIterationWitness ==
    /\ pc = "done"
    /\ iterations = 2
    /\ Len(steps) = 7
    /\ steps[2].op = "event" /\ steps[2].close
    /\ steps[3].op = "event" /\ ~steps[3].close
    /\ steps[7].op = "draw_frame"
    /\ steps[7].frame_state.input.mouse.button_mask = 2
    /\ frames[2].drew

(***************************************************************************)
(* C14.  A mesh map whose load fails stops the startup at that map: the    *)
(* failed call is the last call of load_mesh_map, the maps before it have  *)
(* their handles and no map after it is loaded, no image is added for it,  *)
(* no material slot is rewritten, add_mesh is not called, and no iteration *)
(* of the frame loop is begun, so prepare_frame is never called.           *)
(***************************************************************************)
LoadFailureStopsStartup ==
    \A i \in 1..Len(calls) :
        calls[i].ret.kind = "Err" =>
            /\ i = Len(calls)
            /\ pc = "panicked"
            /\ Len(mesh_map_gpu_ids) = i - 1
            /\ Len(add_image_calls) =
                 Cardinality({k \in 1..(i - 1) : calls[k].ret.kind = "Miss"})
            /\ writes = <<>>
            /\ materials = materials0
            /\ added_mesh = <<>>
            /\ iterations = 0
            /\ steps = <<>>
            /\ frames = <<>>

\* The second of three maps failed to load after the first was loaded and
\* added: the third was not loaded and the program is stopped.
LoadFailureStopsStartupWitness ==
    /\ Len(mesh_maps) = 3
    /\ Len(calls) = 2
    /\ calls[1].ret.kind = "Miss"
    /\ calls[2].ret.kind = "Err"
    /\ Len(add_image_calls) = 1
    /\ pc = "panicked"
    /\ panic = "unwrap on Err"

\* The place of a step in an iteration.
Phase(step) ==
    CASE step.op = "poll_events" -> 0
      [] step.op = "event" -> 1
      [] step.op = "input" -> 2
      [] step.op = "camera" -> 3
      [] step.op = "prepare_frame" -> 4
      [] step.op = "draw_frame" -> 5

\* An iteration is over: the loop is at its head after an iteration, or left.
IterationOver == pc \in {"frame_loop", "done"} /\ iterations > 0

(***************************************************************************)
(* C15.  The steps of an iteration come in the order: events polled and    *)
(* drained, input update, camera update, prepare_frame, draw_frame, none   *)
(* left out up to where the iteration stands and none but the handling of  *)
(* an event repeated.  An iteration that is over has called prepare_frame  *)
(* once, after the camera update, with the frame state built from the      *)
(* updated input; it has called draw_frame exactly when prepare_frame      *)
(* returned Ok, after it and with the same frame state.                    *)
(***************************************************************************)
StepOrder ==
    /\ steps # <<>> => steps[1].op = "poll_events"
    /\ \A i \in 1..(Len(steps) - 1) :
         \/ Phase(steps[i + 1]) = Phase(steps[i]) + 1
         \/ Phase(steps[i]) = 1 /\ Phase(steps[i + 1]) = 1
         \/ Phase(steps[i]) = 0 /\ Phase(steps[i + 1]) = 2
    /\ pc = "events" => Phase(steps[Len(steps)]) \in {0, 1}
    /\ pc = "camera" => Phase(steps[Len(steps)]) = 2
    /\ pc = "prepare" => Phase(steps[Len(steps)]) = 3
    /\ Len(frames) = IF pc \in {"events", "camera", "prepare"} THEN iterations - 1
                                                               ELSE iterations
    /\ drained = Cardinality({i \in 1..Len(steps) : steps[i].op = "event"})
    /\ IterationOver =>
         LET p == CHOOSE i \in 1..Len(steps) : steps[i].op = "prepare_frame"
             ok == frames[Len(frames)].result = "Ok"
         IN  /\ \E i \in 1..Len(steps) : steps[i].op = "prepare_frame"
             /\ steps[p - 1].op = "camera"
             /\ steps[p].frame_state = FrameState(iterations, mouse_state)
             /\ Len(steps) = IF ok THEN p + 1 ELSE p
             /\ ok => /\ steps[p + 1].op = "draw_frame"
                      /\ steps[p + 1].frame_state = steps[p].frame_state
             /\ frames[Len(frames)].drew = ok

\* An iteration with two events that prepared and drew, after one with no
\* event whose prepare_frame failed and that did not draw.
StepOrderWitness ==
    /\ pc = "frame_loop"
    /\ iterations = 2
    /\ ~frames[1].drew
    /\ frames[2].drew
    /\ Len(steps) = 7
    /\ steps[3].op = "event"
    /\ steps[7].op = "draw_frame"
    /\ steps[7].frame_state.input.mouse.button_mask = 1

\* The step is the handling of the event e, the next one of the drain.
Drains(e) == HandleEventFrom({e})

MouseInputs == {e \in Events : e.type = "MouseInput"}
CursorMoves == {e \in Events : e.type = "CursorMoved"}

\* Every bit of the button mask but bit b, and the position, are the same in
\* the mouse states m and n.
SameBut(m, n, b) ==
    /\ n.pos = m.pos
    /\ \A c \in 0..2 : c # b => Bit(n.button_mask, c) = Bit(m.button_mask, c)
    /\ n.button_mask \in 0..7

(***************************************************************************)
(* C16.  The mouse state carries forward.  In the pending state a Pressed  *)
(* event of button id b sets bit b and a Released event clears it, leaving *)
(* the other bits and the position as they were; a CursorMoved event sets  *)
(* the position and leaves the mask; no other event and no other step of   *)
(* the program changes the pending state.  The input update makes the      *)
(* persistent state equal to the pending one, which it leaves as it was,   *)
(* and nothing else changes the persistent state; the frame state takes    *)
(* its mouse input from it.  So a bit stays set, and a position stays,     *)
(* through later iterations, those without events included, until a        *)
(* Released event of that button id, or a CursorMoved event, is drained.   *)
(***************************************************************************)
MouseCarriesForward ==
    [][/\ \A e \in MouseInputs :
            Drains(e) =>
              LET b == ButtonId(e.button)
              IN  /\ b \in 0..2
                  /\ Bit(new_mouse_state'.button_mask, b)
                       = IF e.state = "Pressed" THEN 1 ELSE 0
                  /\ SameBut(new_mouse_state, new_mouse_state', b)
       /\ \A e \in CursorMoves :
            Drains(e) =>
              /\ new_mouse_state'.pos = e.position
              /\ new_mouse_state'.button_mask = new_mouse_state.button_mask
       /\ new_mouse_state' # new_mouse_state =>
            \E e \in MouseInputs \cup CursorMoves : Drains(e)
       /\ \A b \in 0..2 :
            (Bit(new_mouse_state.button_mask, b) = 1
                /\ Bit(new_mouse_state'.button_mask, b) = 0) =>
              \E e \in MouseInputs :
                  /\ e.state = "Released"
                  /\ ButtonId(e.button) = b
                  /\ Drains(e)
       /\ mouse_state' # mouse_state => (pc = "events" /\ pc' = "camera")
       /\ (pc = "events" /\ pc' = "camera") =>
            /\ mouse_state' = new_mouse_state
            /\ new_mouse_state' = new_mouse_state
       /\ pc' = "prepare" => frame_state'.input.mouse = mouse_state'
      ]_vars

\* The middle and the right button were pressed and the cursor moved in the
\* first two iterations; the third drained no event, and its frame state has
\* both bits and the position.
MouseCarriesForwardWitness ==
    /\ pc = "prepare"
    /\ iterations = 3
    /\ drained = 0
    /\ Len(frames) = 2
    /\ frame_state.input.mouse = [pos |-> <<3, 1>>, button_mask |-> 6]
    /\ new_mouse_state = mouse_state

\* The frame loop has been entered and not left.
InFrameLoop == pc \in {"frame_loop", "events", "camera", "prepare"}

(***************************************************************************)
(* C17.  The assets are resolved at startup only.  No step taken inside    *)
(* the frame loop calls load_mesh_map, add_image or add_mesh, or changes   *)
(* the image cache, the handle table, the handles of the maps or the       *)
(* materials.  When the loop is entered every material slot has been       *)
(* written once, in the order of the two loops, and the mesh has been      *)
(* handed to the renderer once, with the materials as they still are.      *)
(***************************************************************************)
AssetsResolvedAtStartup ==
    [][/\ InFrameLoop =>
            /\ UNCHANGED <<image_cache, calls, lazy_evals>>
            /\ UNCHANGED <<cached_image_to_bindless_handle, mesh_map_gpu_ids,
                           add_image_calls>>
            /\ UNCHANGED <<mesh_maps, materials, writes, added_mesh>>
       /\ InFrameLoop' =>
            /\ writes' = SlotOrder(materials0')
            /\ Len(calls') = Len(mesh_maps')
            /\ added_mesh' = << [maps |-> mesh_maps', materials |-> materials'] >>
       /\ (InFrameLoop' /\ ~InFrameLoop) => (pc = "rewrite" /\ iterations' = 0)
      ]_vars

\* Three iterations have been through, with events handled, a frame drawn
\* and a frame failed, and the mesh was added once, with the two images of
\* its three maps.
AssetsResolvedAtStartupWitness ==
    /\ pc = "frame_loop"
    /\ iterations = 3
    /\ Len(frames) = 3
    /\ frames[1].drew
    /\ ~frames[2].drew
    /\ mouse_state.button_mask # 0
    /\ Len(added_mesh) = 1
    /\ Len(calls) = 3
    /\ Len(add_image_calls) = 2

\* What the latch holds after a frame with this result.
LatchOf(result) == IF result = "Ok" THEN "None" ELSE DebugFormat(result)

(***************************************************************************)
(* C18.  The latch describes the most recent prepare_frame call: it is     *)
(* None before the first call; after a call that returned Ok it is None,   *)
(* and after a call that failed it is the formatted text of that failure,  *)
(* whether or not the text was printed; it keeps that value from the end   *)
(* of the iteration until the next call.                                   *)
(***************************************************************************)
LatchDescribesLastFrame ==
    /\ frames = <<>> => last_error_text = "None"
    /\ frames # <<>> => last_error_text = LatchOf(frames[Len(frames)].result)
    /\ \A i \in 1..Len(frames) :
         frames[i].latch = LatchOf(frames[i].result)
    /\ iterations = 0 => frames = <<>>

\* Three failures in a row, the second with another text than the first and
\* the third with the text of the second: the third is not printed and the
\* latch holds its text.
LatchDescribesLastFrameWitness ==
    /\ pc = "frame_loop"
    /\ Len(frames) = 3
    /\ frames[1].result = "e1"
    /\ frames[2].result = "e2"
    /\ frames[3].result = "e3"
    /\ ~frames[3].printed
    /\ last_error_text = DebugFormat("e3")
    /\ last_error_text # DebugFormat("e1")

\* The latest iteration handled a CloseRequested event.
CloseWasHandled ==
    \E k \in 1..Len(steps) : steps[k].op = "event" /\ steps[k].close

(***************************************************************************)
(* C19.  An error returned by try_main does not end the process: main is   *)
(* in its endless loop only after a failed startup, with the error printed *)
(* once on stderr, nothing loaded and no frame made, and no step leaves    *)
(* that loop or prints again.  main returns only from the head of the      *)
(* frame loop with running false, after a CloseRequested event was         *)
(* handled, and with nothing printed on stderr.                            *)
(***************************************************************************)
StartupFailureSpins ==
    [][/\ pc = "err_loop" => (pc' = "err_loop" /\ stderr' = stderr)
       /\ (pc' = "err_loop" /\ pc # "err_loop") =>
            /\ pc = "start"
            /\ stderr = <<>>
            /\ Len(stderr') = 1
       /\ pc' = "err_loop" =>
            /\ Len(stderr') = 1
            /\ calls' = <<>>
            /\ added_mesh' = <<>>
            /\ iterations' = 0
            /\ frames' = <<>>
       /\ (pc' = "done" /\ pc # "done") =>
            /\ pc = "frame_loop"
            /\ ~running
            /\ CloseWasHandled
            /\ stderr' = <<>>
       /\ pc = "done" => pc' = "done"
      ]_vars

\* The startup failed: the error is on stderr and main is in its loop.
StartupFailureSpinsWitness ==
    /\ pc = "err_loop"
    /\ stderr = << "ERROR: startup" >>
    /\ stdout = <<>>
    /\ frames = <<>>
    /\ running

====
